---- MODULE Spec2Model ----
(***************************************************************************)
(* Model of the voxel layer (src/voxler/voxels.py) and of the world        *)
(* reconciliation engine (src/voxler/world.py) of the cuber add-in.        *)
(*                                                                         *)
(* The CAD kernel is modelled by what the code asks of it: the component's *)
(* list of bodies, the design's set of appearances, the design type, and   *)
(* the trace of collaborator calls (kernel and progress dialog) made by    *)
(* the last operation.  Every public operation of VoxelWorld is one        *)
(* action; a Python exception ends the operation at the statement that     *)
(* raises it and keeps every effect made before that statement.            *)
(***************************************************************************)
EXTENDS Integers, Sequences, FiniteSets, TLC

(* ----------------------------- bounds ---------------------------------- *)
MaxBodies == 2      \* bodies the component may hold before creation stops
MaxDef == 2         \* entries of a world definition passed to update
MaxHeld == 2        \* items of a list a caller holds and edits

(* ------------------------- input domains ------------------------------- *)
None == "None"              \* Python None where the slot holds a string
Unset == "<unset>"          \* an instance attribute that was never assigned
Missing == "<missing>"      \* a key left out of a voxel_def dict
NoColor == <<>>             \* Python None in a colour slot
NoBody == 0                 \* Python None in the _body slot
NoThreshold == -1           \* changes_for_dialog = None

Red == <<255, 0, 0, 255>>
Blue == <<0, 0, 255, 255>>

Coords == { <<0, 0, 0>>, <<0, 0, 1>> }
GridSizes == { 2, 4 }
Offsets == { <<1, 0, 0>> }
Thresholds == { NoThreshold, 1, 2 }

\* (shape, color, appearance, name) arguments handed to add_voxel / update
MkSpec(s, c, a, n) == [shape |-> s, color |-> c, appearance |-> a, name |-> n]

SpecPool ==
    { MkSpec("cube", Red, "Oak", "a"),
      MkSpec("sphere", Red, "Oak", "a"),
      MkSpec("cube", Blue, "Oak", "a"),
      MkSpec("cube", Red, "Oak", "b"),
      MkSpec("cube", NoColor, "Oak", "a"),
      MkSpec("cube", Red, Missing, Missing),
      MkSpec("pyramid", Red, "Oak", "a") }

\* the voxel_def dicts used as values of a world definition
DefPool ==
    { MkSpec("cube", Red, "Oak", "a"),
      MkSpec("sphere", Red, "Oak", "a"),
      MkSpec("cube", Red, Missing, Missing) }

\* a world definition is a dict: its items in iteration (insertion) order
Entry(c, s) == [coord |-> c, spec |-> s]

\* the dicts of n items with pairwise distinct keys
RECURSIVE DefsOfLen(_)
DefsOfLen(n) ==
    IF n = 0 THEN { <<>> }
    ELSE { Append(d, Entry(c, s)) :
             d \in DefsOfLen(n - 1), c \in Coords, s \in DefPool }

DistinctKeys(d) == \A i, j \in 1..Len(d) : i # j => d[i].coord # d[j].coord

WorldDefs == { d \in UNION { DefsOfLen(n) : n \in 0..MaxDef } : DistinctKeys(d) }

Keys(D) == { D[i].coord : i \in 1..Len(D) }

(* ------------------------------ state ---------------------------------- *)
VARIABLES
    voxels,       \* VoxelWorld._voxels : coordinate -> Voxel instance
    order,        \* the keys of _voxels in the dict's insertion order
    grid_size,    \* VoxelWorld._grid_size
    offset,       \* VoxelWorld._offset
    bodies,       \* component.bRepBodies, in creation order
    apps,         \* names of the appearances held by the design
    designType,   \* design.designType
    log,          \* collaborator calls made by the last operation
    lastOp,       \* the last operation: its arguments and its outcome
    held          \* the list a caller got from get_coordinates / get_all_voxels

vars == <<voxels, order, grid_size, offset, bodies, apps, designType, log, lastOp, held>>

\* The things an operation works on, threaded through its statements.
\* err is "none" while the operation runs and the exception's name after a raise.
Machine(v, k, g, o, b, a, t, l, e) ==
    [voxels |-> v, order |-> k, grid |-> g, offset |-> o, bodies |-> b, apps |-> a,
     dtype |-> t, log |-> l, err |-> e]

\* A step's result is bound once, as the only member of a singleton set
\* ( CHOOSE r \in { next(x) : x \in { step(w) } } : TRUE ), before the next
\* step reads it: this is the sequencing of the statements of the source.
Raise(w, e) == [w EXCEPT !.err = e]

Emit(w, ev) == [w EXCEPT !.log = Append(@, ev)]

\* one collaborator call: what, on which body, where (a centre, or <<>>), with what
Ev(kind, body, at, arg) == [ev |-> kind, body |-> body, at |-> at, arg |-> arg]

(* ----------------------- kernel collaborators -------------------------- *)
\* the "Fusion 360 Appearance Library" entries the inputs name
Library == { "Oak", "Steel - Satin", "Prism-256" }

\* bRepBodies.add(createBox(...)) / bRepBodies.add(createSphere(...))
NewBody(center, kind, size) ==
    [center |-> center, kind |-> kind, size |-> size,
     appearance |-> None, name |-> "Body", deleted |-> FALSE]

\* body.deleteMe(): the kernel throws on a body that is already gone
DeleteMe(w, b) ==
    IF w.bodies[b].deleted
    THEN Raise(w, "RuntimeError")
    ELSE Emit([w EXCEPT !.bodies[b].deleted = TRUE], Ev("delete", b, w.bodies[b].center, None))

(* --------------------------- voxels.py --------------------------------- *)
\* tuple(color): a sequence is copied, None is not iterable
TupleOf(color) == [i \in 1..Len(color) |-> color[i]]

\* f"{appearance}__custom_r{r}g{g}b{b}o{o}"
ColoredAppearanceName(appearance, color) ==
    appearance \o "__custom_" \o "r" \o ToString(color[1]) \o "g" \o ToString(color[2])
               \o "b" \o ToString(color[3]) \o "o" \o ToString(color[4])

\* _get_appearance that copies the base appearance without looking the name up
GetAppearanceAlwaysCopies(w, appearance, color) ==
    LET base_appearance == IF appearance \in Library THEN appearance ELSE None
    IN IF color = NoColor
       THEN IF base_appearance = None
            THEN [w |-> Raise(w, "AttributeError"), app |-> None]
            ELSE [w |-> w,
                  app |-> IF base_appearance \in w.apps THEN base_appearance ELSE None]
       ELSE IF base_appearance = None
            THEN [w |-> Raise(w, "RuntimeError"), app |-> None]
            ELSE [w |-> Emit([w EXCEPT !.apps = @ \cup
                                          {ColoredAppearanceName(appearance, color)}],
                             Ev("addAppearance", NoBody, <<>>,
                                ColoredAppearanceName(appearance, color))),
                  app |-> ColoredAppearanceName(appearance, color)]

\* Voxel._get_appearance for a voxel with the given _appearance and _color:
\* the machine after it and the appearance it returns
GetAppearance(w, appearance, color) ==
    LET base_appearance == IF appearance \in Library THEN appearance ELSE None
    IN IF color = NoColor
       THEN IF base_appearance = None
            THEN [w |-> Raise(w, "AttributeError"), app |-> None]
            ELSE [w |-> w,
                  app |-> IF base_appearance \in w.apps THEN base_appearance ELSE None]
       ELSE IF ColoredAppearanceName(appearance, color) \in w.apps
            THEN [w |-> w, app |-> ColoredAppearanceName(appearance, color)]
            ELSE IF base_appearance = None
                 THEN [w |-> Raise(w, "RuntimeError"), app |-> None]
                 ELSE [w |-> Emit([w EXCEPT !.apps = @ \cup
                                               {ColoredAppearanceName(appearance, color)}],
                                  Ev("addAppearance", NoBody, <<>>,
                                     ColoredAppearanceName(appearance, color))),
                       app |-> ColoredAppearanceName(appearance, color)]

\* the instance attributes Voxel.__init__ assigns; _name and _body are not yet set
NewVoxel(cls, center, side_length, color, appearance) ==
    [cls |-> cls, center |-> TupleOf(center), side_length |-> side_length,
     color |-> TupleOf(color), appearance |-> appearance, name |-> Unset, body |-> NoBody]

\* no instance: the constructor raised
NoVoxel == NewVoxel(None, <<>>, 0, <<>>, None)

\* the tail of _create_body, on body b once _get_appearance has answered ga:
\* new_body.appearance = ...; new_body.name = self._name; return new_body
DressBody(ga, obj, b) ==
    IF ga.w.err # "none" THEN [w |-> ga.w, body |-> NoBody]
    ELSE IF obj.name = Unset
    THEN [w |-> Raise(Emit([ga.w EXCEPT !.bodies[b].appearance = ga.app],
                           Ev("setAppearance", b, obj.center, ga.app)),
                      "AttributeError"),
          body |-> NoBody]
    ELSE [w |-> Emit(Emit([ga.w EXCEPT !.bodies[b].appearance = ga.app,
                                       !.bodies[b].name = obj.name],
                          Ev("setAppearance", b, obj.center, ga.app)),
                     Ev("rename", b, obj.center, obj.name)),
          body |-> b]

\* DirectCube._create_body / DirectSphere._create_body on the instance obj:
\* the machine after it and the body it returns
CreateBody(w, obj) ==
    CHOOSE r \in
        { DressBody(ga, obj, Len(w.bodies) + 1) :
            ga \in { GetAppearance(w1, obj.appearance, obj.color) :
                       w1 \in { Emit([w EXCEPT !.bodies = Append(@,
                                        IF obj.cls = "DirectCube"
                                        THEN NewBody(obj.center, "box", obj.side_length)
                                        ELSE NewBody(obj.center, "sphere",
                                                     obj.side_length \div 2))],
                                     Ev("create", Len(w.bodies) + 1, obj.center, None)) } } }
        : TRUE

\* Voxel.__init__: stores the attributes, then creates the body
VoxelInit(w, cls, center, side_length, color, appearance) ==
    IF color = NoColor
    THEN [w |-> Raise(w, "TypeError"), obj |-> NoVoxel]
    ELSE CHOOSE r \in
        { [w |-> cb.w,
           obj |-> [NewVoxel(cls, center, side_length, color, appearance)
                      EXCEPT !.body = cb.body]] :
            cb \in { CreateBody(w, NewVoxel(cls, center, side_length, color, appearance)) } }
        : TRUE

\* DirectVoxel.__init__ without the look at the design type
DirectVoxelInitUnchecked(w, cls, center, side_length, color, appearance, name) ==
    CHOOSE r \in
        { IF vi.w.err # "none" THEN vi ELSE [w |-> vi.w, obj |-> [vi.obj EXCEPT !.name = name]] :
            vi \in { VoxelInit(w, cls, center, side_length, color, appearance) } }
        : TRUE

\* DirectVoxel.__init__ that looks at the design type only after Voxel.__init__
DirectVoxelInitChecksLate(w, cls, center, side_length, color, appearance, name) ==
    CHOOSE r \in
        { IF vi.w.err # "none" THEN vi
          ELSE IF vi.w.dtype = "Parametric"
          THEN [w |-> Raise(vi.w, "RuntimeError"), obj |-> NoVoxel]
          ELSE [w |-> vi.w, obj |-> [vi.obj EXCEPT !.name = name]] :
            vi \in { VoxelInit(w, cls, center, side_length, color, appearance) } }
        : TRUE

\* DirectVoxel.__init__ (DirectCube and DirectSphere only forward to it):
\* the design-type check, Voxel.__init__, and only then self._name = name
DirectVoxelInit(w, cls, center, side_length, color, appearance, name) ==
    IF w.dtype = "Parametric"
    THEN [w |-> Raise(w, "RuntimeError"), obj |-> NoVoxel]
    ELSE CHOOSE r \in
        { IF vi.w.err # "none" THEN vi ELSE [w |-> vi.w, obj |-> [vi.obj EXCEPT !.name = name]] :
            vi \in { VoxelInit(w, cls, center, side_length, color, appearance) } }
        : TRUE

\* Voxel.delete on the voxel stored at coordinate c
VoxelDelete(w, c) ==
    IF w.voxels[c].body = NoBody
    THEN Raise(w, "AttributeError")
    ELSE CHOOSE r \in
        { IF d.err # "none" THEN d ELSE [d EXCEPT !.voxels[c].body = NoBody] :
            d \in { DeleteMe(w, w.voxels[c].body) } }
        : TRUE

\* DirectVoxel.name setter on the voxel stored at c
SetName(w, c, new_name) ==
    IF w.voxels[c].name # new_name
    THEN Emit([w EXCEPT !.voxels[c].name = new_name,
                        !.bodies[w.voxels[c].body].name = new_name],
              Ev("rename", w.voxels[c].body, w.voxels[c].center, new_name))
    ELSE w

\* body.appearance = self._get_appearance() of the voxel stored at c
ApplyAppearance(w, c) ==
    CHOOSE r \in
        { IF ga.w.err # "none" THEN ga.w
          ELSE Emit([ga.w EXCEPT !.bodies[w.voxels[c].body].appearance = ga.app],
                    Ev("setAppearance", w.voxels[c].body, w.voxels[c].center, ga.app)) :
            ga \in { GetAppearance(w, w.voxels[c].appearance, w.voxels[c].color) } }
        : TRUE

\* DirectVoxel.color setter on the voxel stored at c
SetColor(w, c, new_color) ==
    IF new_color = NoColor THEN Raise(w, "TypeError")
    ELSE IF w.voxels[c].color # TupleOf(new_color)
    THEN ApplyAppearance([w EXCEPT !.voxels[c].color = TupleOf(new_color)], c)
    ELSE w

\* DirectVoxel.appearance setter on the voxel stored at c
SetAppearance(w, c, new_appearance_name) ==
    IF new_appearance_name # w.voxels[c].appearance
    THEN ApplyAppearance([w EXCEPT !.voxels[c].appearance = new_appearance_name], c)
    ELSE w

(* ---------------------------- world.py --------------------------------- *)
\* the attributes a Voxel instance answers to (voxels.py defines no others)
VoxelAttributes ==
    { "component", "center", "side_length", "body", "appearance", "color", "name" }

\* dict.pop(c) and dict[c] = obj on _voxels
Pop(w, c) ==
    [w EXCEPT !.voxels = [x \in DOMAIN w.voxels \ {c} |-> w.voxels[x]],
              !.order = SelectSeq(w.order, LAMBDA x : x # c)]

Store(w, c, obj) ==
    [w EXCEPT !.voxels = [x \in DOMAIN w.voxels \cup {c} |->
                            IF x = c THEN obj ELSE w.voxels[x]],
              !.order = IF c \in DOMAIN w.voxels THEN w.order ELSE Append(w.order, c)]

\* the order in which Python walks a set of coordinates: fixed, not the dict's
RECURSIVE SetOrder(_)
SetOrder(S) ==
    IF S = {} THEN <<>>
    ELSE <<CHOOSE x \in S : TRUE>> \o SetOrder(S \ {CHOOSE x \in S : TRUE})

\* VoxelWorld.get_real_center
GetRealCenter(w, game_coords) ==
    [i \in 1..3 |-> (game_coords[i] + w.offset[i]) * w.grid]

\* add_voxel, first part: a voxel of another class at c is deleted and popped
DropOtherClass(w, c, voxel_class) ==
    IF c \in DOMAIN w.voxels /\ w.voxels[c].cls # voxel_class
    THEN CHOOSE r \in { IF d.err # "none" THEN d ELSE Pop(d, c) : d \in { VoxelDelete(w, c) } }
         : TRUE
    ELSE w

\* add_voxel, second part: create the voxel when c is free, else run the setters
PlaceVoxel(w, c, voxel_class, color, appearance, name) ==
    IF w.err # "none" THEN w
    ELSE IF c \notin DOMAIN w.voxels
    THEN CHOOSE r \in
            { IF made.w.err # "none" THEN made.w ELSE Store(made.w, c, made.obj) :
                made \in { DirectVoxelInit(w, voxel_class, GetRealCenter(w, c), w.grid,
                                           color, appearance, name) } }
         : TRUE
    ELSE CHOOSE r \in
            { IF b.err # "none" THEN b ELSE SetName(b, c, name) :
                b \in { IF a.err # "none" THEN a ELSE SetColor(a, c, color) :
                          a \in { SetAppearance(w, c, appearance) } } }
         : TRUE

\* add_voxel whose last branch picks DirectSphere instead of raising
AddVoxelAnyShape(w, c, shape, color, appearance, name) ==
    CHOOSE r \in
        { PlaceVoxel(w1, c, IF shape = "cube" THEN "DirectCube" ELSE "DirectSphere",
                     color, appearance, name) :
            w1 \in { DropOtherClass(w, c, IF shape = "cube" THEN "DirectCube"
                                                           ELSE "DirectSphere") } }
        : TRUE

\* VoxelWorld.add_voxel(coordinates, shape, color, appearance, name)
AddVoxel(w, c, shape, color, appearance, name) ==
    IF shape \notin {"cube", "sphere"} THEN Raise(w, "ValueError")
    ELSE CHOOSE r \in
            { PlaceVoxel(w1, c, IF shape = "cube" THEN "DirectCube" ELSE "DirectSphere",
                         color, appearance, name) :
                w1 \in { DropOtherClass(w, c, IF shape = "cube" THEN "DirectCube"
                                                               ELSE "DirectSphere") } }
         : TRUE

\* add_voxel(coordinates=coord, **voxel_def): a key the dict leaves out takes
\* the default of add_voxel's signature
AddVoxelDef(w, c, voxel_def) ==
    AddVoxel(w, c, voxel_def.shape, voxel_def.color,
             IF voxel_def.appearance = Missing THEN "Prism-256" ELSE voxel_def.appearance,
             IF voxel_def.name = Missing THEN "voxel" ELSE voxel_def.name)

\* delete_voxel entered: the call is noted in the trace, as a test double would
Entered(w, c) == Emit(w, Ev("delete_voxel", NoBody, c, None))

\* delete_voxel that pops without looking the coordinate up first
DeleteVoxelPopsBlindly(w, c) ==
    IF c \in DOMAIN w.voxels
    THEN [w |-> Pop(Entered(w, c), c), success |-> TRUE]
    ELSE [w |-> Raise(Entered(w, c), "KeyError"), success |-> FALSE]

\* delete_voxel that reports success whether or not it found a voxel
DeleteVoxelReportsSuccess(w, c) ==
    IF c \in DOMAIN w.voxels
    THEN CHOOSE r \in
            { IF d.err \in {"none", "RuntimeError"}
              THEN [w |-> Pop([d EXCEPT !.err = "none"], c), success |-> TRUE]
              ELSE [w |-> d, success |-> TRUE] :
                d \in { VoxelDelete(Entered(w, c), c) } }
         : TRUE
    ELSE [w |-> Entered(w, c), success |-> TRUE]

\* VoxelWorld.delete_voxel: the machine after it and the value it returns
DeleteVoxel(w, c) ==
    IF c \in DOMAIN w.voxels
    THEN CHOOSE r \in
            { IF d.err = "none" THEN [w |-> Pop(d, c), success |-> TRUE]
              ELSE IF d.err = "RuntimeError"
              THEN [w |-> Pop(Emit(Entered(w, c), Ev("warning", w.voxels[c].body,
                                                     w.voxels[c].center, None)), c),
                    success |-> FALSE]
              ELSE [w |-> d, success |-> FALSE] :
                d \in { VoxelDelete(Entered(w, c), c) } }
         : TRUE
    ELSE [w |-> Entered(w, c), success |-> FALSE]

\* for coord in coords: self.delete_voxel(coord)
RECURSIVE DeleteAll(_, _)
DeleteAll(w, coords) ==
    IF coords = <<>> \/ w.err # "none" THEN w
    ELSE CHOOSE r \in { DeleteAll(n, Tail(coords)) : n \in { DeleteVoxel(w, Head(coords)).w } }
         : TRUE

\* clear that walks every coordinate of the grid instead of the keys it holds
ClearWalksEveryCoordinate(w) == DeleteAll(w, SetOrder(Coords))

\* VoxelWorld.clear
Clear(w) == DeleteAll(w, SetOrder(DOMAIN w.voxels))

\* voxel.shape as world.py reads it
ShapeOf(voxel) ==
    IF "shape" \notin VoxelAttributes THEN "AttributeError"
    ELSE IF voxel.cls = "DirectCube" THEN "cube" ELSE "sphere"

\* the test of _number_of_changes on one item: "change", "same", or the exception
ChangeAt(w, coord, voxel_def) ==
    IF coord \notin DOMAIN w.voxels THEN "change"
    ELSE IF ShapeOf(w.voxels[coord]) = "AttributeError" THEN "AttributeError"
    ELSE IF ShapeOf(w.voxels[coord]) # voxel_def.shape THEN "change"
    ELSE IF voxel_def.appearance = Missing THEN "KeyError"
    ELSE IF w.voxels[coord].appearance # voxel_def.appearance THEN "change"
    ELSE IF w.voxels[coord].color # voxel_def.color THEN "change"
    ELSE "same"

\* VoxelWorld._number_of_changes from count i on: the count, or the exception
RECURSIVE NumberOfChanges(_, _, _)
NumberOfChanges(w, world_def, i) ==
    IF world_def = <<>> THEN [err |-> "none", n |-> i]
    ELSE CHOOSE r \in
            { IF t \notin {"change", "same"} THEN [err |-> t, n |-> i]
              ELSE NumberOfChanges(w, Tail(world_def), IF t = "change" THEN i + 1 ELSE i) :
                t \in { ChangeAt(w, Head(world_def).coord, Head(world_def).spec) } }
         : TRUE

\* the loop of update going on with the next item after an add_voxel raised
RECURSIVE AddEntriesKeepsGoing(_, _)
AddEntriesKeepsGoing(w, world_def) ==
    IF world_def = <<>> THEN w
    ELSE CHOOSE r \in
            { IF rest.err # "none" THEN rest ELSE [rest EXCEPT !.err = n.err] :
                n \in { AddVoxelDef(w, Head(world_def).coord, Head(world_def).spec) },
                rest \in { AddEntriesKeepsGoing(
                              [AddVoxelDef(w, Head(world_def).coord, Head(world_def).spec)
                                 EXCEPT !.err = "none"],
                              Tail(world_def)) } }
         : TRUE

\* the eager loop of update: add_voxel for every item, a raise ends it
RECURSIVE AddEntries(_, _)
AddEntries(w, world_def) ==
    IF world_def = <<>> \/ w.err # "none" THEN w
    ELSE CHOOSE r \in
            { AddEntries(n, Tail(world_def)) :
                n \in { AddVoxelDef(w, Head(world_def).coord, Head(world_def).spec) } }
         : TRUE

\* progress_dialog.wasCancelled is read: the read and its answer in the trace
Polled(w, answer) == Emit(w, Ev("poll", NoBody, <<>>, answer))

\* the tracked loop with the poll moved behind add_voxel
RECURSIVE TrackEntriesPollsLate(_, _, _, _)
TrackEntriesPollsLate(w, world_def, i, cancelAt) ==
    IF i >= Len(world_def) \/ w.err # "none" THEN [w |-> w, cancelled |-> FALSE]
    ELSE CHOOSE r \in
            { IF a.err # "none" THEN [w |-> a, cancelled |-> FALSE]
              ELSE IF i >= cancelAt THEN [w |-> Polled(a, "True"), cancelled |-> TRUE]
              ELSE TrackEntriesPollsLate(Polled(a, "False"), world_def, i + 1, cancelAt) :
                a \in { IF n.err # "none" THEN n
                        ELSE Emit(n, Ev("progressValue", NoBody, <<>>, ToString(i + 1))) :
                          n \in { AddVoxelDef(w, world_def[i + 1].coord,
                                              world_def[i + 1].spec) } } }
         : TRUE

\* the tracked loop of update from item i (0-based) on; wasCancelled reads true
\* from the poll numbered cancelAt on.  The machine and the flag `cancelled`.
RECURSIVE TrackEntries(_, _, _, _)
TrackEntries(w, world_def, i, cancelAt) ==
    IF i >= Len(world_def) \/ w.err # "none" THEN [w |-> w, cancelled |-> FALSE]
    ELSE IF i >= cancelAt THEN [w |-> Polled(w, "True"), cancelled |-> TRUE]
    ELSE CHOOSE r \in
            { IF a.err # "none" THEN [w |-> a, cancelled |-> FALSE]
              ELSE TrackEntries(a, world_def, i + 1, cancelAt) :
                a \in { IF n.err # "none" THEN n
                        ELSE Emit(n, Ev("progressValue", NoBody, <<>>, ToString(i + 1))) :
                          n \in { AddVoxelDef(Polled(w, "False"), world_def[i + 1].coord,
                                              world_def[i + 1].spec) } } }
         : TRUE

\* update that stays eager also when the count equals the threshold
ApplyDefAboveThreshold(w, new_world_def, progress_dialog, changes_for_dialog, cancelAt, count) ==
    IF w.err # "none" THEN [w |-> w, ret |-> None]
    ELSE IF count.err # "none" THEN [w |-> Raise(w, count.err), ret |-> None]
    ELSE IF ~progress_dialog
            \/ (changes_for_dialog # NoThreshold /\ count.n <= changes_for_dialog)
    THEN CHOOSE r \in
            { [w |-> e, ret |-> IF e.err # "none" THEN None ELSE "True"] :
                e \in { AddEntries(w, new_world_def) } }
         : TRUE
    ELSE CHOOSE r \in
            { IF t.w.err # "none" THEN [w |-> t.w, ret |-> None]
              ELSE [w |-> Emit(t.w, Ev("hide", NoBody, <<>>, None)),
                    ret |-> IF t.cancelled THEN "False" ELSE "True"] :
                t \in { TrackEntries(shown, new_world_def, 0, cancelAt) :
                          shown \in { Emit(w, Ev("show", NoBody, <<>>,
                                                 ToString(Len(new_world_def)))) } } }
         : TRUE

\* update, the create/update phase on the machine w left by the deletions
ApplyDef(w, new_world_def, progress_dialog, changes_for_dialog, cancelAt, count) ==
    IF w.err # "none" THEN [w |-> w, ret |-> None]
    ELSE IF count.err # "none" THEN [w |-> Raise(w, count.err), ret |-> None]
    ELSE IF ~progress_dialog
            \/ (changes_for_dialog # NoThreshold /\ count.n < changes_for_dialog)
    THEN CHOOSE r \in
            { [w |-> e, ret |-> IF e.err # "none" THEN None ELSE "True"] :
                e \in { AddEntries(w, new_world_def) } }
         : TRUE
    ELSE CHOOSE r \in
            { IF t.w.err # "none" THEN [w |-> t.w, ret |-> None]
              ELSE [w |-> Emit(t.w, Ev("hide", NoBody, <<>>, None)),
                    ret |-> IF t.cancelled THEN "False" ELSE "True"] :
                t \in { TrackEntries(shown, new_world_def, 0, cancelAt) :
                          shown \in { Emit(w, Ev("show", NoBody, <<>>,
                                                 ToString(Len(new_world_def)))) } } }
         : TRUE

\* VoxelWorld.update(new_world_def, progress_dialog, changes_for_dialog):
\* the machine after it and the value it returns (when it returns)
Update(w, new_world_def, progress_dialog, changes_for_dialog, cancelAt) ==
    CHOOSE r \in
        { ApplyDef(w1, new_world_def, progress_dialog, changes_for_dialog, cancelAt,
                   IF w1.err = "none" /\ progress_dialog /\ changes_for_dialog # NoThreshold
                   THEN NumberOfChanges(w1, new_world_def, 0)
                   ELSE [err |-> "none", n |-> 0]) :
            w1 \in { DeleteAll(w, SetOrder(DOMAIN w.voxels \ Keys(new_world_def))) } }
        : TRUE

\* VoxelWorld.get_current_world_def: the dict built, or the exception raised
RECURSIVE WorldDefOf(_, _)
WorldDefOf(w, keys) ==
    IF keys = <<>> THEN [err |-> "none", def |-> <<>>]
    ELSE IF ShapeOf(w.voxels[Head(keys)]) = "AttributeError"
    THEN [err |-> "AttributeError", def |-> <<>>]
    ELSE CHOOSE r \in
            { IF rest.err # "none" THEN rest
              ELSE [err |-> "none",
                    def |-> <<Entry(Head(keys),
                                    MkSpec(ShapeOf(w.voxels[Head(keys)]),
                                           w.voxels[Head(keys)].color,
                                           w.voxels[Head(keys)].appearance,
                                           w.voxels[Head(keys)].name))>> \o rest.def] :
                rest \in { WorldDefOf(w, Tail(keys)) } }
         : TRUE

GetCurrentWorldDef(w) == WorldDefOf(w, w.order)

\* the list object shares its storage with the world's own container
ListShared(of, container) == [of |-> of, items |-> container, shared |-> TRUE]

\* list(...): a new list object with the container's items in iteration order
ListCopy(of, container) == [of |-> of, items |-> container, shared |-> FALSE]

\* self._voxels.keys() and self._voxels.values(), in the dict's order
KeysOf(w) == w.order
ValuesOf(w) == [i \in 1..Len(w.order) |-> w.voxels[w.order[i]]]

\* VoxelWorld.get_coordinates
GetCoordinates(w) == w.order

\* VoxelWorld.get_coordinates / get_all_voxels: the list object handed out
GetCoordinatesList(w) == ListCopy("keys", KeysOf(w))
GetAllVoxels(w) == ListCopy("values", ValuesOf(w))

\* what a list object shows after the world changed: a list of its own keeps
\* its items, one that shares the world's storage shows the world's items
Shows(list, w) ==
    IF ~list.shared THEN list
    ELSE [list EXCEPT !.items = IF list.of = "keys" THEN KeysOf(w) ELSE ValuesOf(w)]

\* a method of the world is entered from _rebuild: the trace keeps its name and
\* the grid size the world stores at that moment
Called(w, method) == Emit(w, Ev(method, NoBody, <<>>, ToString(w.grid)))

\* _rebuild after the snapshot: clear(), then update(snapshot, progress_dialog)
RebuildFrom(w, current_world_def, progress_dialog, cancelAt) ==
    IF current_world_def.err # "none"
    THEN [w |-> Raise(w, current_world_def.err), ret |-> None]
    ELSE CHOOSE r \in
            { IF cleared.err # "none" THEN [w |-> cleared, ret |-> None]
              ELSE Update(Called(cleared, "update"), current_world_def.def,
                          progress_dialog, NoThreshold, cancelAt) :
                cleared \in { Clear(Called(w, "clear")) } }
         : TRUE

\* VoxelWorld._rebuild
Rebuild(w, progress_dialog, cancelAt) ==
    CHOOSE r \in
        { RebuildFrom(Called(w, "get_current_world_def"), current_world_def,
                      progress_dialog, cancelAt) :
            current_world_def \in { GetCurrentWorldDef(w) } }
        : TRUE

\* set_grid_size without the comparison of its first line: always rebuilds
SetGridSizeAlwaysRebuilds(w, new_grid_size, progress_dialog, cancelAt) ==
    CHOOSE r \in
        { Rebuild(w1, progress_dialog, cancelAt) :
            w1 \in { [w EXCEPT !.grid = new_grid_size] } }
        : TRUE

\* set_grid_size that stores the new grid size between clear() and update()
SetGridSizeStoresAfterClear(w, new_grid_size, progress_dialog, cancelAt) ==
    IF new_grid_size = w.grid
    THEN [w |-> w, ret |-> None]
    ELSE CHOOSE r \in
            { IF current_world_def.err # "none"
              THEN [w |-> Raise(w, current_world_def.err), ret |-> None]
              ELSE IF cleared.err # "none" THEN [w |-> cleared, ret |-> None]
              ELSE Update(Called([cleared EXCEPT !.grid = new_grid_size], "update"),
                          current_world_def.def, progress_dialog, NoThreshold, cancelAt) :
                current_world_def \in { GetCurrentWorldDef(w) },
                cleared \in { Clear(Called(Called(w, "get_current_world_def"), "clear")) } }
         : TRUE

\* VoxelWorld.set_grid_size
SetGridSize(w, new_grid_size, progress_dialog, cancelAt) ==
    IF new_grid_size = w.grid
    THEN [w |-> w, ret |-> None]
    ELSE CHOOSE r \in
            { Rebuild(w1, progress_dialog, cancelAt) :
                w1 \in { [w EXCEPT !.grid = new_grid_size] } }
         : TRUE

(* --------------------------- the machine ------------------------------- *)
NoSpec == MkSpec(None, NoColor, None, None)

Op(name, c, spec, def, pd, threshold, cancelAt, grid, result) ==
    [op |-> name, coord |-> c, spec |-> spec, def |-> def, pd |-> pd,
     threshold |-> threshold, cancelAt |-> cancelAt, grid |-> grid, result |-> result]

\* the world as an operation finds it; the trace of calls starts empty
Start == Machine(voxels, order, grid_size, offset, bodies, apps, designType, <<>>, "none")

\* what an operation hands back: the value returned, or the exception raised
Outcome(w, ret) == IF w.err # "none" THEN w.err ELSE ret

Commit(w) ==
    /\ voxels' = w.voxels
    /\ order' = w.order
    /\ grid_size' = w.grid
    /\ bodies' = w.bodies
    /\ apps' = w.apps
    /\ log' = w.log
    /\ held' = Shows(held, w)
    /\ UNCHANGED <<offset, designType>>

\* no list was handed out yet
NoList == [of |-> "none", items |-> <<>>, shared |-> FALSE]

\* VoxelWorld.__init__ in a fresh component of a fresh design
Init ==
    /\ voxels = <<>>
    /\ order = <<>>
    /\ grid_size \in GridSizes
    /\ offset \in Offsets
    /\ bodies = <<>>
    /\ apps = {}
    /\ designType \in {"Direct", "Parametric"}
    /\ log = <<>>
    /\ lastOp = Op("init", <<>>, NoSpec, <<>>, FALSE, NoThreshold, 0, grid_size, None)
    /\ held = NoList

AddVoxelOp ==
    \E c \in Coords, spec \in SpecPool :
        /\ Len(bodies) < MaxBodies
        /\ \E w \in { AddVoxelDef(w0, c, spec) : w0 \in {Start} } :
              /\ Commit(w)
              /\ lastOp' = Op("add_voxel", c, spec, <<>>, FALSE, NoThreshold, 0,
                              grid_size, Outcome(w, None))

DeleteVoxelOp ==
    \E c \in Coords :
        \E r \in { DeleteVoxel(w0, c) : w0 \in {Start} } :
           /\ Commit(r.w)
           /\ lastOp' = Op("delete_voxel", c, NoSpec, <<>>, FALSE, NoThreshold, 0,
                           grid_size, Outcome(r.w, IF r.success THEN "True" ELSE "False"))

ClearOp ==
    \E w \in { Clear(w0) : w0 \in {Start} } :
       /\ Commit(w)
       /\ lastOp' = Op("clear", <<>>, NoSpec, <<>>, FALSE, NoThreshold, 0,
                       grid_size, Outcome(w, None))

UpdateOp ==
    \E D \in WorldDefs, pd \in BOOLEAN, threshold \in Thresholds, cancelAt \in 0..MaxDef :
        /\ Len(bodies) + Len(D) <= MaxBodies
        /\ cancelAt <= Len(D)
        /\ ~pd => (threshold = NoThreshold /\ cancelAt = Len(D))
        /\ threshold # NoThreshold => cancelAt = Len(D)
        /\ \E r \in { Update(w0, D, pd, threshold, cancelAt) : w0 \in {Start} } :
              /\ Commit(r.w)
              /\ lastOp' = Op("update", <<>>, NoSpec, D, pd, threshold, cancelAt,
                              grid_size, Outcome(r.w, r.ret))

SetGridSizeOp ==
    \E g \in GridSizes, pd \in BOOLEAN, cancelAt \in 0..MaxDef :
        /\ Len(bodies) + Len(order) <= MaxBodies
        /\ cancelAt <= Len(order)
        /\ ~pd => cancelAt = Len(order)
        /\ \E r \in { SetGridSize(w0, g, pd, cancelAt) : w0 \in {Start} } :
              /\ Commit(r.w)
              /\ lastOp' = Op("set_grid_size", <<>>, NoSpec, <<>>, pd, NoThreshold, cancelAt,
                              g, Outcome(r.w, r.ret))

Next == AddVoxelOp \/ DeleteVoxelOp \/ ClearOp \/ UpdateOp \/ SetGridSizeOp

Spec == Init /\ [][Next]_vars

(* ------------------ the lists handed out to callers -------------------- *)
\* a getter leaves the world as it is and hands out a list
HandOut(name, list) ==
    /\ held' = list
    /\ log' = <<>>
    /\ lastOp' = Op(name, <<>>, NoSpec, <<>>, FALSE, NoThreshold, 0, grid_size, None)
    /\ UNCHANGED <<voxels, order, grid_size, offset, bodies, apps, designType>>

GetCoordinatesOp == \E list \in { GetCoordinatesList(w0) : w0 \in {Start} } :
                        HandOut("get_coordinates", list)

GetAllVoxelsOp == \E list \in { GetAllVoxels(w0) : w0 \in {Start} } :
                      HandOut("get_all_voxels", list)

Reversed(items) == [i \in 1..Len(items) |-> items[Len(items) + 1 - i]]

\* list.append(x), list.pop(), list.reverse() on a list of at most MaxHeld items
Edits(items) ==
    { Append(items, x) : x \in IF Len(items) < MaxHeld THEN Coords ELSE {} }
        \cup (IF items # <<>> THEN { SubSeq(items, 1, Len(items) - 1) } ELSE {})
        \cup { Reversed(items) }

\* the world's map when its own container was edited into `items`
EditedWorld(w, of, items) ==
    LET kept == IF of = "keys" THEN items
                ELSE SelectSeq(w.order,
                               LAMBDA c : \E i \in 1..Len(items) : items[i] = w.voxels[c])
    IN [w EXCEPT !.order = kept,
                 !.voxels = [c \in { x \in DOMAIN w.voxels :
                                        \E i \in 1..Len(kept) : kept[i] = x } |-> w.voxels[c]]]

\* the caller appends to, removes from or reorders the list it holds
CallerEditsList ==
    /\ held.of # "none"
    /\ \E items \in Edits(held.items) :
          /\ held' = [held EXCEPT !.items = items]
          /\ \E w \in { IF held.shared THEN EditedWorld(w0, held.of, items) ELSE w0 :
                          w0 \in {Start} } :
                /\ voxels' = w.voxels
                /\ order' = w.order
          /\ log' = <<>>
          /\ lastOp' = Op("list_edit", <<>>, NoSpec, <<>>, FALSE, NoThreshold, 0,
                          grid_size, None)
          /\ UNCHANGED <<grid_size, offset, bodies, apps, designType>>

SnapshotNext ==
    \/ GetCoordinatesOp \/ GetAllVoxelsOp \/ CallerEditsList
    \/ AddVoxelOp \/ DeleteVoxelOp \/ ClearOp

SnapshotSpec == Init /\ [][SnapshotNext]_vars

(* ------------------------ reading the state ---------------------------- *)
\* the world between two operations
Here == Machine(voxels, order, grid_size, offset, bodies, apps, designType, log, "none")

\* set(get_coordinates())
CoordinateSet == { order[i] : i \in 1..Len(order) }

\* the calls of one kind in a trace, and the calls that touch geometry
Calls(l, kind) == { i \in 1..Len(l) : l[i].ev = kind }

GeometryCalls(l) ==
    { i \in 1..Len(l) : l[i].ev \in {"create", "delete", "setAppearance", "rename"} }

\* a voxel_def with the defaults of add_voxel's signature filled in
Resolved(spec) ==
    [spec EXCEPT !.appearance = IF @ = Missing THEN "Prism-256" ELSE @,
                 !.name = IF @ = Missing THEN "voxel" ELSE @]

ClassOf(shape) == IF shape = "cube" THEN "DirectCube" ELSE "DirectSphere"

\* the voxel stored at c has the fields the voxel_def asks for
Holds(v, c, spec) ==
    /\ c \in DOMAIN v
    /\ v[c].cls = ClassOf(spec.shape)
    /\ v[c].color = spec.color
    /\ v[c].appearance = Resolved(spec).appearance
    /\ v[c].name = Resolved(spec).name

\* the voxel_def a world definition gives for coordinate c
DefAt(D, c) == D[CHOOSE i \in 1..Len(D) : D[i].coord = c].spec

FullySpecified(D) ==
    \A i \in 1..Len(D) : D[i].spec.appearance # Missing /\ D[i].spec.name # Missing

\* an update that ran to its end or was ended by an exception, not by a cancel
UpdateNotCancelled(op) == op.op = "update" /\ op.result # "False"

(* ------------------------------ claims --------------------------------- *)

\* C1: after an update(D) that was not cancelled, in a design that permits
\* direct solid creation, update has returned true and the set of coordinates
\* returned by get_coordinates() is exactly the key set of D.
C1_ExactReconciliation ==
    (designType = "Direct" /\ UpdateNotCancelled(lastOp))
        => (lastOp.result = "True" /\ CoordinateSet = Keys(lastOp.def))

\* C2: after a non-cancelled update(D) whose entries all give shape, color,
\* appearance and name, get_current_world_def() returns a mapping with the
\* coordinate set of D and, at every coordinate, the shape, color, appearance
\* and name D gives.
C2_RoundTrip ==
    (designType = "Direct" /\ UpdateNotCancelled(lastOp) /\ FullySpecified(lastOp.def))
        => /\ GetCurrentWorldDef(Here).err = "none"
           /\ { GetCurrentWorldDef(Here).def[i] : i \in 1..Len(GetCurrentWorldDef(Here).def) }
                = { lastOp.def[i] : i \in 1..Len(lastOp.def) }

\* C3: update(D) called right after a non-cancelled update(D) with the same D
\* leaves the coordinate-to-voxel mapping as the first call left it and makes
\* no geometry call: no body deleted, created, re-dressed or renamed.
C3_Idempotence ==
    [][ ( /\ designType = "Direct"
          /\ UpdateNotCancelled(lastOp)
          /\ lastOp'.op = "update"
          /\ lastOp'.def = lastOp.def )
        => (voxels' = voxels /\ GeometryCalls(log') = {}) ]_vars

\* the coordinates at which two world definitions over the same keys differ
DiffCoords(D1, D2) == { c \in Keys(D1) : Resolved(DefAt(D1, c)) # Resolved(DefAt(D2, c)) }

\* C4: when update(D2) follows a non-cancelled update(D1) and D2 differs from D1
\* at one coordinate c only, every geometry call of update(D2) is made at c,
\* and no body is created or deleted at all when the shape at c is the same.
C4_MinimalMutation ==
    [][ ( /\ designType = "Direct"
          /\ UpdateNotCancelled(lastOp)
          /\ UpdateNotCancelled(lastOp')
          /\ Keys(lastOp'.def) = Keys(lastOp.def)
          /\ Cardinality(DiffCoords(lastOp.def, lastOp'.def)) = 1 )
        => \A c \in DiffCoords(lastOp.def, lastOp'.def) :
              /\ \A i \in GeometryCalls(log') : log'[i].at = GetRealCenter(Here, c)
              /\ DefAt(lastOp.def, c).shape = DefAt(lastOp'.def, c).shape
                    => Calls(log', "create") \cup Calls(log', "delete") = {} ]_vars

\* two voxel_defs that differ in shape only, cube against sphere
ShapeOnlyChange(s1, s2) ==
    /\ {s1.shape, s2.shape} = {"cube", "sphere"}
    /\ [Resolved(s1) EXCEPT !.shape = s2.shape] = Resolved(s2)

\* C5: add_voxel at a coordinate c that the previous add_voxel filled, with a
\* spec that differs in shape only (cube to sphere or sphere to cube), deletes
\* exactly one body and then creates exactly one body at c, and leaves at c a
\* voxel of the new shape with the spec's fields.
C5_ShapeChangeRebuilds ==
    [][ ( /\ designType = "Direct"
          /\ lastOp.op = "add_voxel"
          /\ lastOp'.op = "add_voxel"
          /\ lastOp'.coord = lastOp.coord
          /\ ShapeOnlyChange(lastOp.spec, lastOp'.spec)
          /\ lastOp.spec.color # NoColor )
        => /\ Cardinality(Calls(log', "delete")) = 1
           /\ Cardinality(Calls(log', "create")) = 1
           /\ \A d \in Calls(log', "delete"), n \in Calls(log', "create") :
                 d < n /\ log'[d].at = log'[n].at
           /\ Holds(voxels', lastOp'.coord, lastOp'.spec) ]_vars

\* C6: add_voxel(c, spec) with shape cube or sphere on a coordinate that holds
\* no voxel leaves c present with the shape, color, appearance and name given,
\* adds exactly one body, and changes no other coordinate of the world.
C6_AddCreates ==
    [][ ( /\ designType = "Direct"
          /\ lastOp'.op = "add_voxel"
          /\ lastOp'.coord \notin DOMAIN voxels
          /\ lastOp'.spec.shape \in {"cube", "sphere"}
          /\ lastOp'.spec.color # NoColor )
        => /\ Holds(voxels', lastOp'.coord, lastOp'.spec)
           /\ Len(bodies') = Len(bodies) + 1
           /\ \A c \in DOMAIN voxels : c \in DOMAIN voxels' /\ voxels'[c] = voxels[c] ]_vars

\* C7: add_voxel at a coordinate c that the previous add_voxel filled with a
\* voxel of the same shape creates and deletes no body, and leaves at c a voxel
\* whose appearance, color and name are those of the new spec.
C7_SameShapeUpdates ==
    [][ ( /\ designType = "Direct"
          /\ lastOp.op = "add_voxel"
          /\ lastOp'.op = "add_voxel"
          /\ lastOp'.coord = lastOp.coord
          /\ lastOp'.spec.shape = lastOp.spec.shape
          /\ lastOp.spec.shape \in {"cube", "sphere"}
          /\ lastOp.spec.color # NoColor
          /\ lastOp'.spec.color # NoColor )
        => /\ Calls(log', "create") \cup Calls(log', "delete") = {}
           /\ Holds(voxels', lastOp'.coord, lastOp'.spec) ]_vars

\* C8: set_grid_size with a new value, called right after add_voxel(c, spec)
\* made the world non-empty and not cancelled, leaves get_current_world_def()
\* with spec at c, has deleted every body that existed before the call, and has
\* created one new body per coordinate.
C8_RebuildOnRescale ==
    [][ ( /\ designType = "Direct"
          /\ lastOp.op = "add_voxel"
          /\ lastOp.spec.shape \in {"cube", "sphere"}
          /\ lastOp.spec.color # NoColor
          /\ lastOp'.op = "set_grid_size"
          /\ lastOp'.grid # grid_size
          /\ lastOp'.result # "False" )
        => /\ Holds(voxels', lastOp.coord, lastOp.spec)
           /\ \A b \in 1..Len(bodies) : bodies'[b].deleted
           /\ Cardinality(Calls(log', "create")) = Cardinality(DOMAIN voxels') ]_vars

\* C9: set_grid_size with the value the world already has changes nothing:
\* the map, the stored grid size, the bodies and the appearances are as before,
\* and no call is made on the kernel or on the progress dialog.
C9_SameGridSizeNoOp ==
    [][ (lastOp'.op = "set_grid_size" /\ lastOp'.grid = grid_size)
        => /\ voxels' = voxels
           /\ order' = order
           /\ grid_size' = grid_size
           /\ bodies' = bodies
           /\ apps' = apps
           /\ log' = <<>> ]_vars

\* C9 witness: set_grid_size returned from its first line (no value), with a
\* progress dialog supplied, in a component that holds bodies
C9_Witness ==
    /\ lastOp.op = "set_grid_size"
    /\ lastOp.result = None
    /\ lastOp.grid = grid_size
    /\ lastOp.pd
    /\ Len(bodies) > 0
    /\ log = <<>>

\* update ran its tracked loop: the dialog was shown
Tracked(l) == Calls(l, "show") # {}

\* C10: when update(D) runs under progress tracking and wasCancelled turns true
\* after k of the n entries of D were processed (k < n), update returns false,
\* the coordinate set is a subset of keys(D), and the first k coordinates of D
\* are present with D's specs.
C10_CancellationPartiality ==
    ( /\ designType = "Direct"
      /\ lastOp.op = "update"
      /\ Tracked(log)
      /\ lastOp.cancelAt < Len(lastOp.def) )
        => /\ lastOp.result = "False"
           /\ CoordinateSet \subseteq Keys(lastOp.def)
           /\ \A i \in 1..lastOp.cancelAt :
                 Holds(voxels, lastOp.def[i].coord, lastOp.def[i].spec)

\* a value update hands back when it runs to its return statement
Returned(op) == op.result \in {"True", "False"}

\* C11: update returns false exactly when it ran under progress tracking and
\* wasCancelled read true at a poll made before some entry of D; every other
\* run, in a design that permits direct solid creation, returns true, also
\* when the cancel request comes only after the last entry was processed.
C11_ReturnValue ==
    (designType = "Direct" /\ lastOp.op = "update")
        => lastOp.result = IF Tracked(log) /\ lastOp.cancelAt < Len(lastOp.def)
                           THEN "False" ELSE "True"

DeleteVoxelCalls(l, c) == { i \in Calls(l, "delete_voxel") : l[i].at = c }

PlacedBefore(op) ==
    /\ op.op = "add_voxel"
    /\ op.spec.shape \in {"cube", "sphere"}
    /\ op.spec.color # NoColor

NothingMutated ==
    /\ voxels' = voxels
    /\ order' = order
    /\ grid_size' = grid_size
    /\ bodies' = bodies
    /\ apps' = apps
    /\ GeometryCalls(log') \cup Calls(log', "addAppearance") = {}

\* C15: add_voxel with a shape token other than "cube" and "sphere" raises
\* ValueError, and the map, every voxel, every body and every appearance are
\* after the call what they were before it.
C15_InvalidShapeFailsFirst ==
    [][ (lastOp'.op = "add_voxel" /\ lastOp'.spec.shape \notin {"cube", "sphere"})
        => (lastOp'.result = "ValueError" /\ NothingMutated) ]_vars

\* C15 witness: add_voxel has raised ValueError for the token "pyramid" in a
\* component that holds bodies
C15_Witness ==
    /\ lastOp.op = "add_voxel"
    /\ lastOp.spec.shape = "pyramid"
    /\ lastOp.result = "ValueError"
    /\ Len(bodies) > 0

Added(b) == b[Len(b)]

\* C18: add_voxel with color None on a free coordinate, in a design that
\* permits direct solid creation, succeeds: the voxel is stored with color
\* None, one body is added, every appearance applied is the base appearance
\* itself, and no tinted appearance is added to the design.
C18_NullColor ==
    [][ ( /\ designType = "Direct"
          /\ lastOp'.op = "add_voxel"
          /\ lastOp'.spec.shape \in {"cube", "sphere"}
          /\ lastOp'.spec.color = NoColor
          /\ lastOp'.coord \notin DOMAIN voxels )
        => /\ lastOp'.result = None
           /\ Holds(voxels', lastOp'.coord, lastOp'.spec)
           /\ Len(bodies') = Len(bodies) + 1
           /\ \A i \in Calls(log', "setAppearance") :
                 log'[i].arg = Resolved(lastOp'.spec).appearance
           /\ Calls(log', "addAppearance") = {}
           /\ apps' = apps ]_vars

\* C19: constructing a cube or sphere voxel with display name n (add_voxel on
\* a free coordinate, with a color) in a design that permits direct solid
\* creation succeeds, adds exactly one body, and leaves that body with name n
\* and with the appearance derived from the voxel's appearance and color.
C19_ConstructionDressesBody ==
    [][ ( /\ designType = "Direct"
          /\ lastOp'.op = "add_voxel"
          /\ lastOp'.spec.shape \in {"cube", "sphere"}
          /\ lastOp'.spec.color # NoColor
          /\ lastOp'.coord \notin DOMAIN voxels )
        => /\ lastOp'.result = None
           /\ Len(bodies') = Len(bodies) + 1
           /\ Added(bodies').name = Resolved(lastOp'.spec).name
           /\ Added(bodies').appearance =
                 ColoredAppearanceName(Resolved(lastOp'.spec).appearance,
                                       lastOp'.spec.color) ]_vars

\* the values progressValue was set to, in order
ProgressValues(l) == SelectSeq(l, LAMBDA e : e.ev = "progressValue")

\* the entries a tracked update is to process before it stops
ToProcess(op) == IF op.cancelAt < Len(op.def) THEN op.cancelAt ELSE Len(op.def)

\* C20: an update that runs under progress tracking shows the dialog once,
\* with maximum len(D), before any entry is processed, and sets progressValue
\* to 1, 2, ... after each entry in turn: up to len(D) when not cancelled, up
\* to k when cancelled after k entries.
C20_ProgressReporting ==
    (designType = "Direct" /\ lastOp.op = "update" /\ Tracked(log))
        => /\ Cardinality(Calls(log, "show")) = 1
           /\ \A s \in Calls(log, "show") :
                 /\ log[s].arg = ToString(Len(lastOp.def))
                 /\ \A i \in Calls(log, "create") \cup Calls(log, "progressValue") : s < i
           /\ Len(ProgressValues(log)) = ToProcess(lastOp)
           /\ \A i \in 1..Len(ProgressValues(log)) :
                 ProgressValues(log)[i].arg = ToString(i)

\* the coordinates of D that the map v does not hold, or holds with another
\* shape, appearance or color: what the threshold is compared with
ChangesWanted(v, D) ==
    Cardinality({ i \in 1..Len(D) :
        \/ D[i].coord \notin DOMAIN v
        \/ v[D[i].coord].cls # ClassOf(D[i].spec.shape)
        \/ v[D[i].coord].appearance # Resolved(D[i].spec).appearance
        \/ v[D[i].coord].color # D[i].spec.color })

\* the calls an update makes on the progress dialog
DialogCalls(l) ==
    Calls(l, "show") \cup Calls(l, "poll") \cup Calls(l, "progressValue") \cup Calls(l, "hide")

\* C21: update runs under progress tracking (shows the dialog) if and only if
\* a progress handle is supplied and either no threshold is given or the number
\* of changes wanted is at least the threshold; in every other case it makes
\* no call on the dialog at all.
C21_TrackingCondition ==
    [][ lastOp'.op = "update"
        => /\ Tracked(log') <=>
                /\ lastOp'.pd
                /\ \/ lastOp'.threshold = NoThreshold
                   \/ ChangesWanted(voxels, lastOp'.def) >= lastOp'.threshold
           /\ ~Tracked(log') => DialogCalls(log') = {} ]_vars

\* C21 witness: an update with a handle and threshold 2 showed the dialog for
\* a definition of two entries
C21_Witness ==
    /\ lastOp.op = "update"
    /\ lastOp.pd
    /\ lastOp.threshold = 2
    /\ Len(lastOp.def) = 2
    /\ Tracked(log)

\* the names handed to design.appearances.addByCopy during an operation
CopiesMade(l) == { l[i].arg : i \in Calls(l, "addAppearance") }

\* C22: the document never gets a second appearance of one tinted name: every
\* copy an operation adds has a name the document did not hold before, no name
\* is copied twice, and the document afterwards holds what it held plus the
\* copies; a derivation for a name already held adds nothing.
C22_TintedVariantReused ==
    [][ /\ \A i \in Calls(log', "addAppearance") : log'[i].arg \notin apps
        /\ Cardinality(Calls(log', "addAppearance")) = Cardinality(CopiesMade(log'))
        /\ apps' = apps \cup CopiesMade(log') ]_vars

\* C22 witness: a second construction for the same appearance and color has
\* dressed its body with the variant the document held already and copied
\* nothing
C22_Witness ==
    /\ lastOp.op = "add_voxel"
    /\ Len(bodies) = 2
    /\ bodies[1].appearance = bodies[2].appearance
    /\ bodies[2].appearance \in apps
    /\ Calls(log, "setAppearance") # {}
    /\ Calls(log, "addAppearance") = {}

\* the calls add_voxel makes while it processes an entry
EntryCalls(l) == GeometryCalls(l) \cup Calls(l, "addAppearance") \cup Calls(l, "delete_voxel")

BodyLive(v, b, c) ==
    c \in DOMAIN v /\ v[c].body # NoBody /\ ~b[v[c].body].deleted

C29_GridSizeStoredAfterClear ==
    [][ (lastOp'.op = "set_grid_size" /\ lastOp'.grid # grid_size)
        => \E s \in Calls(log', "get_current_world_def") :
           \E c \in Calls(log', "clear") :
           \E u \in Calls(log', "update") :
              /\ s < c /\ c < u
              /\ log'[s].arg = ToString(grid_size)
              /\ log'[c].arg = ToString(grid_size)
              /\ log'[u].arg = ToString(lastOp'.grid) ]_vars

\* C29 as the code has it: set_grid_size with a new value stores the new grid
\* size first and then takes the snapshot, calls clear() and calls
\* update(snapshot), in this order; the world stores the new grid size already
\* when get_current_world_def and clear are entered, and stores it after the
\* call however the call ends.
C29_GridSizeStoredFirst ==
    [][ (lastOp'.op = "set_grid_size" /\ lastOp'.grid # grid_size)
        => /\ grid_size' = lastOp'.grid
           /\ \E s \in Calls(log', "get_current_world_def") :
                /\ log'[s].arg = ToString(lastOp'.grid)
                /\ \A c \in Calls(log', "clear") :
                      s < c /\ log'[c].arg = ToString(lastOp'.grid)
                /\ \A u \in Calls(log', "update") :
                      /\ log'[u].arg = ToString(lastOp'.grid)
                      /\ \E c \in Calls(log', "clear") : c < u ]_vars

\* C29 witness: set_grid_size with a new value has run its rebuild through
\* update in a component that holds bodies, and the world stores the new size
C29_Witness ==
    /\ lastOp.op = "set_grid_size"
    /\ lastOp.result = "True"
    /\ grid_size = lastOp.grid
    /\ Calls(log, "get_current_world_def") # {}
    /\ Calls(log, "clear") # {}
    /\ Calls(log, "update") # {}
    /\ Len(bodies) > 0

\* the voxel_def differs from the arguments of the add_voxel at most in name
SameButName(voxel_def, spec) ==
    /\ voxel_def.shape = spec.shape
    /\ voxel_def.color = spec.color
    /\ Resolved(voxel_def).appearance = Resolved(spec).appearance

\* C30: a coordinate of D that differs from the stored voxel only in name is
\* not counted by _number_of_changes, and neither is a coordinate update will
\* delete: an update with a progress handle and a threshold of 1 or more,
\* called right after add_voxel(c, spec) with a D that is empty or holds only c
\* with spec under another name, runs eagerly and makes no call on the dialog.
C30_NameChangesNotCounted ==
    [][ ( /\ designType = "Direct"
          /\ PlacedBefore(lastOp)
          /\ lastOp'.op = "update"
          /\ lastOp'.pd
          /\ lastOp'.threshold >= 1
          /\ \A i \in 1..Len(lastOp'.def) :
                /\ lastOp'.def[i].coord = lastOp.coord
                /\ SameButName(lastOp'.def[i].spec, lastOp.spec) )
        => DialogCalls(log') = {} ]_vars

FirstConstructed(op) ==
    IF op.op = "add_voxel" THEN op.spec.shape
    ELSE IF op.op = "update" /\ op.def # <<>>
            /\ ~(Tracked(log) /\ op.cancelAt = 0)
    THEN op.def[1].spec.shape
    ELSE None

\* C32: in a parametric design every construction of a cube or sphere voxel
\* fails with RuntimeError, whatever its color, before a body is created or
\* added to the component and before an appearance is added to the document:
\* the operation that asked for it ends with that error, the component holds
\* no body, the document no appearance, and no call reached the kernel.
C32_ParametricConstructionFails ==
    designType = "Parametric"
        => /\ FirstConstructed(lastOp) \in {"cube", "sphere"}
                => lastOp.result = "RuntimeError"
           /\ bodies = <<>>
           /\ apps = {}
           /\ GeometryCalls(log) \cup Calls(log, "addAppearance") = {}

\* C32 witness: an update of two entries has been stopped by the construction
\* of its first voxel in a parametric design
C32_Witness ==
    /\ designType = "Parametric"
    /\ lastOp.op = "update"
    /\ Len(lastOp.def) = 2
    /\ lastOp.result = "RuntimeError"
    /\ bodies = <<>>

\* the coordinates whose voxel has body b as its handle
OwnersOf(v, b) == { c \in DOMAIN v : v[c].body = b }

\* C33: every live body of the component is the handle of exactly one voxel
\* of the world's map, also after operations in which a construction failed
\* once its body was added: no body is left without a map entry.
C33_NoBodyWithoutEntry ==
    \A b \in 1..Len(bodies) :
        ~bodies[b].deleted => Cardinality(OwnersOf(voxels, b)) = 1

\* C34: an update that has shown the progress dialog has hidden it again by
\* the time it hands control back, however it ends (completed, cancelled, or
\* with the error of an add_voxel): hide is the last call it made.
C34_DialogHiddenAtExit ==
    (lastOp.op = "update" /\ Tracked(log))
        => /\ Calls(log, "hide") # {}
           /\ log[Len(log)].ev = "hide"

\* C35: set_grid_size with a new value and a progress handle, called right
\* after add_voxel(c, spec) made the world non-empty and with the cancel
\* request pending from the first poll on, returns false and stores the new
\* grid size; the world holds a subset of the coordinates it held, each voxel
\* with its previous spec and the new side length.
C35_CancelledRescale ==
    [][ ( /\ designType = "Direct"
          /\ PlacedBefore(lastOp)
          /\ lastOp'.op = "set_grid_size"
          /\ lastOp'.grid # grid_size
          /\ lastOp'.pd
          /\ lastOp'.cancelAt = 0 )
        => /\ lastOp'.result = "False"
           /\ grid_size' = lastOp'.grid
           /\ DOMAIN voxels' \subseteq {lastOp.coord}
           /\ \A c \in DOMAIN voxels' :
                 /\ Holds(voxels', c, lastOp.spec)
                 /\ voxels'[c].side_length = lastOp'.grid ]_vars

\* the calls add_voxel made for coordinate c: they carry c or its real center
CallsAt(l, c) ==
    { j \in EntryCalls(l) :
        l[j].at \in {c, GetRealCenter([offset |-> offset, grid |-> grid_size], c)} }

\* C37: an update that ends with the error of an add_voxel hands that error to
\* its caller and rolls nothing back: the coordinates outside D are deleted,
\* the entries before the failing one are applied, no entry after the failing
\* one is touched, and the coordinate set is a subset of keys(D).
C37_ErrorWithoutRollback ==
    [][ (lastOp'.op = "update" /\ ~Returned(lastOp'))
        => /\ lastOp'.result \in {"AttributeError", "RuntimeError", "TypeError",
                                  "ValueError", "KeyError"}
           /\ { order'[i] : i \in 1..Len(order') } \subseteq Keys(lastOp'.def)
           /\ \A c \in DOMAIN voxels \ Keys(lastOp'.def) : c \notin DOMAIN voxels'
           /\ \E k \in 1..Len(lastOp'.def) :
                /\ \A i \in 1..(k - 1) :
                      Holds(voxels', lastOp'.def[i].coord, lastOp'.def[i].spec)
                /\ \A i \in (k + 1)..Len(lastOp'.def) :
                      /\ CallsAt(log', lastOp'.def[i].coord) = {}
                      /\ lastOp'.def[i].coord \in DOMAIN voxels'
                            <=> lastOp'.def[i].coord \in DOMAIN voxels ]_vars

\* C37 witness: an eager update of two entries has ended with the error of its
\* first add_voxel, whose body is in the component, and made no call for the
\* second entry
C37_Witness ==
    /\ lastOp.op = "update"
    /\ ~lastOp.pd
    /\ Len(lastOp.def) = 2
    /\ lastOp.result = "AttributeError"
    /\ Cardinality(Calls(log, "create")) = 1

\* the tinted variant add_voxel's arguments ask for
VariantOf(spec) == ColoredAppearanceName(Resolved(spec).appearance, spec.color)

\* C38: add_voxel on the coordinate where add_voxel placed a voxel of the same
\* shape, with another appearance and another color, adds no tinted appearance
\* to the document but the one for (new appearance, new color), none for
\* (new appearance, old color), creates no body, and leaves the body placed
\* before with the variant for (new appearance, new color).
C38_NoIntermediateVariant ==
    [][ ( /\ designType = "Direct"
          /\ PlacedBefore(lastOp)
          /\ PlacedBefore(lastOp')
          /\ lastOp'.coord = lastOp.coord
          /\ lastOp'.spec.shape = lastOp.spec.shape
          /\ lastOp'.spec.color # lastOp.spec.color
          /\ Resolved(lastOp'.spec).appearance # Resolved(lastOp.spec).appearance )
        => /\ apps' \ apps \subseteq {VariantOf(lastOp'.spec)}
           /\ ColoredAppearanceName(Resolved(lastOp'.spec).appearance, lastOp.spec.color)
                 \notin apps' \ apps
           /\ Len(bodies') = Len(bodies)
           /\ bodies'[Len(bodies)].appearance = VariantOf(lastOp'.spec) ]_vars

====
